---------------------------- MODULE Spec2Model ----------------------------
(***************************************************************************)
(* A model of the market-size analysis core: the e-Stat statistics client  *)
(* (retry, cache, normalisation), credential resolution, the main          *)
(* pipeline (annual series, nowcast, KPIs) and the JSIC industry matcher.  *)
(*                                                                         *)
(* Conventions.  A text is a sequence of one-character strings.  A float   *)
(* is modelled as an exact rational <<n, d>> in lowest terms with d > 0    *)
(* (rounding is not modelled); NaN / None is the value Missing.  A raised  *)
(* exception is a record [raised |-> name].                                *)
(***************************************************************************)
EXTENDS Integers, Sequences, FiniteSets, TLC

VARIABLES
    stAvail,    \* estat_client.st is not None (streamlit importable)
    firstExp,   \* the installed tenacity's exponent for the first wait (0 or 1)
    cache,      \* st.cache_data store of _request: key -> entry or NoEntry
    now,        \* wall clock, seconds
    call,       \* the get() invocation in progress or just finished
    hist,       \* per key, the last get() that returned successfully
    credIn,     \* _load_estat_client: the four credential sources
    credOut,    \* _load_estat_client: the client built or the error raised
    rawValues,  \* _values_to_frame: the VALUE rows of the response
    classObjs,  \* _normalize_meta: the CLASS_OBJ entries of the response
    frame,      \* _values_to_frame: the records produced
    mpc,        \* main(): position in the pipeline
    period,     \* main(): the sidebar's (start year, end year)
    data,       \* main(): the data frame (rows of time, value)
    useNowcast, \* main(): the sidebar's nowcast switch
    series,     \* main(): annual_series / adjusted_series
    kpis,       \* main(): the result of _calculate_kpis
    ncIn,       \* apply_nowcast: arguments
    ncOut,      \* apply_nowcast: result
    catalog,    \* jsic_mapper._seed_records()
    query,      \* guess_jsic: industry_name
    limit,      \* guess_jsic: limit
    ranked      \* guess_jsic: result

clientVars == <<stAvail, firstExp, cache, now, call, hist>>
credVars == <<credIn, credOut>>
frameVars == <<rawValues, classObjs, frame>>
mainVars == <<mpc, period, data, useNowcast, series, kpis>>
ncVars == <<ncIn, ncOut>>
matchVars == <<catalog, query, limit, ranked>>
notClient == <<credVars, frameVars, mainVars, ncVars, matchVars>>
notCred == <<clientVars, frameVars, mainVars, ncVars, matchVars>>
notFrame == <<clientVars, credVars, mainVars, ncVars, matchVars>>
notMain == <<clientVars, credVars, frameVars, ncVars, matchVars>>
notNc == <<clientVars, credVars, frameVars, mainVars, matchVars>>
notMatch == <<clientVars, credVars, frameVars, mainVars, ncVars>>
vars == <<stAvail, firstExp, cache, now, call, hist, credIn, credOut, rawValues,
          classObjs, frame, mpc, period, data, useNowcast, series, kpis, ncIn,
          ncOut, catalog, query, limit, ranked>>

-----------------------------------------------------------------------------
(* Generic helpers *)

Missing == <<>>               \* None / NaN where a rational is expected
None == <<"None">>            \* None where a text is expected (str(None) is "None")
Idle == "Idle"                \* value of a variable its specification does not use

Min(a, b) == IF a <= b THEN a ELSE b
Max(a, b) == IF a >= b THEN a ELSE b
Abs(a) == IF a < 0 THEN -a ELSE a

RECURSIVE GCD(_, _)
GCD(a, b) == IF b = 0 THEN a ELSE GCD(b, a % b)

RECURSIVE Pow(_, _)
Pow(b, e) == IF e = 0 THEN 1 ELSE b * Pow(b, e - 1)

\* Rationals <<n, d>>, d > 0, lowest terms.
Rat(n, d) ==
    LET s == IF d < 0 THEN -1 ELSE 1
        g == GCD(Abs(n), Abs(d))
    IN  <<(s * n) \div g, (s * d) \div g>>
RInt(i) == <<i, 1>>
\* The operations cancel common factors first, to keep intermediate
\* products small.
RAdd(x, y) ==
    LET g == GCD(x[2], y[2])
    IN  Rat(x[1] * (y[2] \div g) + y[1] * (x[2] \div g), (x[2] \div g) * y[2])
RNeg(x) == <<-x[1], x[2]>>
RSub(x, y) == RAdd(x, RNeg(y))
RMul(x, y) ==
    LET g1 == GCD(Abs(x[1]), y[2])
        g2 == GCD(Abs(y[1]), x[2])
    IN  Rat((x[1] \div g1) * (y[1] \div g2), (x[2] \div g2) * (y[2] \div g1))
RDiv(x, y) == RMul(x, Rat(y[2], y[1]))
RLess(x, y) == x[1] * y[2] < y[1] * x[2]
RLeq(x, y) == x[1] * y[2] <= y[1] * x[2]
RZero == <<0, 1>>
ROne == <<1, 1>>

\* All sequences over S of length 0..n.
SeqsUpTo(S, n) == UNION {[1..k -> S] : k \in 0..n}

-----------------------------------------------------------------------------
(* Texts and float() *)

Digits == {"0", "1", "2", "3", "4", "5", "6", "7", "8", "9"}
DigitVal(c) == CASE c = "0" -> 0 [] c = "1" -> 1 [] c = "2" -> 2 [] c = "3" -> 3
                 [] c = "4" -> 4 [] c = "5" -> 5 [] c = "6" -> 6 [] c = "7" -> 7
                 [] c = "8" -> 8 [] c = "9" -> 9

RECURSIVE DigitsValue(_)
DigitsValue(ds) ==
    IF ds = <<>> THEN 0
    ELSE DigitsValue(SubSeq(ds, 1, Len(ds) - 1)) * 10 + DigitVal(ds[Len(ds)])

IsDigit(c) == c \in Digits
ParseFail == <<"ValueError">>

\* Python's float(text) on texts over digits, "-", "." and other characters:
\* [-] (digits [. [digits]] | . digits); anything else raises ValueError.
PyFloat(text) ==
    LET neg == Len(text) > 0 /\ text[1] = "-"
        body == IF neg THEN Tail(text) ELSE text
        dots == {i \in 1..Len(body) : body[i] = "."}
        ds == SelectSeq(body, IsDigit)
        wellFormed == /\ \A i \in 1..Len(body) : IsDigit(body[i]) \/ body[i] = "."
                      /\ Cardinality(dots) <= 1
                      /\ Len(ds) >= 1
        fracLen == IF dots = {} THEN 0 ELSE Len(body) - (CHOOSE i \in dots : TRUE)
    IN  IF wellFormed
        THEN Rat((IF neg THEN -1 ELSE 1) * DigitsValue(ds), Pow(10, fracLen))
        ELSE ParseFail

-----------------------------------------------------------------------------
(* Statistics client: estat_client.py, _normalize_meta / _values_to_frame *)

Placeholder == <<"-">>        \* the "-" of line 96
AbsentKey == "<absent>"       \* a dimension entry without "@id"
NullId == "<null>"            \* a dimension entry whose "@id" is null

\* EstatClassObj(id=obj.get("@id", ""), ..., items={code: name for item in classes}).
\* A null id or a null code / name fails validation; a missing one defaults to "".
ClassObjValid(obj) ==
    /\ obj.id # NullId
    /\ \A i \in 1..Len(obj.classes) :
          obj.classes[i].code # None /\ obj.classes[i].name # None

ClassObjId(obj) == IF obj.id = AbsentKey THEN "" ELSE obj.id

\* The dict comprehension: the last item with a given code wins.
ClassObjItems(obj) ==
    LET cs == obj.classes
        codes == {cs[i].code : i \in 1..Len(cs)}
        last(c) == CHOOSE i \in 1..Len(cs) :
                      cs[i].code = c /\ \A j \in (i + 1)..Len(cs) : cs[j].code # c
    IN  [c \in codes |-> cs[last(c)].name]

RECURSIVE NormalizeMetaFrom(_, _)
NormalizeMetaFrom(class_objs, lookup) ==
    IF class_objs = <<>> THEN lookup
    ELSE LET obj == Head(class_objs)
             next == IF ClassObjValid(obj)
                     THEN [d \in DOMAIN lookup \cup {ClassObjId(obj)} |->
                              IF d = ClassObjId(obj) THEN ClassObjItems(obj) ELSE lookup[d]]
                     ELSE lookup
         IN  NormalizeMetaFrom(Tail(class_objs), next)

EmptyLookup == [d \in {} |-> <<>>]
NormalizeMeta(class_objs) == NormalizeMetaFrom(class_objs, EmptyLookup)

\* lookup.get(dim, {}).get(code or "", code)
Resolve(lookup, dim, code) ==
    LET key == IF code = None THEN <<>> ELSE code
    IN  IF dim \in DOMAIN lookup /\ key \in DOMAIN lookup[dim]
        THEN lookup[dim][key]
        ELSE code

\* EstatValue.model_validate(raw): raw must be a mapping.
RowValid(raw) == raw.shape = "dict"

\* float(value) if value not in (None, "-") else None; ValueError gives None.
CoerceValueZeroFill(value) ==
    IF value = None \/ value = Placeholder THEN RZero
    ELSE IF PyFloat(value) = ParseFail THEN RZero ELSE PyFloat(value)
CoerceValue(value) ==
    IF value = None \/ value = Placeholder THEN Missing
    ELSE IF PyFloat(value) = ParseFail THEN Missing ELSE PyFloat(value)

ToRecord(raw, lookup) ==
    [cat01 |-> Resolve(lookup, "cat01", raw.cat01),
     area |-> Resolve(lookup, "area", raw.area),
     time |-> Resolve(lookup, "time", raw.time),
     tab |-> raw.tab,
     class_code |-> raw.classCode,
     value |-> CoerceValue(raw.value)]

RECURSIVE ValuesToFrame(_, _)
ValuesToFrame(values, lookup) ==
    IF values = <<>> THEN <<>>
    ELSE IF RowValid(Head(values))
         THEN <<ToRecord(Head(values), lookup)>> \o ValuesToFrame(Tail(values), lookup)
         ELSE ValuesToFrame(Tail(values), lookup)

-----------------------------------------------------------------------------
(* Statistics client: estat_client.py, get / _request / _cache *)

TTL == 3600             \* st.cache_data(ttl=3600)
MaxAttempts == 3        \* stop_after_attempt(3)
MaxTicks == 2           \* clock steps of TTL / 2

\* The (stats_data_id, params) pairs callers ask for.
Keys == {"tableA", "tableB"}
ClockStep == TTL \div 2
NoEntry == [present |-> FALSE, payload |-> 0, storedAt |-> 0]
NoHist == [present |-> FALSE, at |-> 0, frame |-> <<>>, fetched |-> FALSE, netCalls |-> 0]

StatusOk == <<0>>
StatusErr == <<100>>
NoField == <<>>         \* a key the payload does not carry
\* The successful payloads the server may send: payload d carries d value rows.
PayloadIds == {1, 2}
DefaultApiMessage == "e-Stat API returned an error"

\* What one requests.get + raise_for_status + json() can produce.
TransportErrors == {"ConnectionError", "HTTPError"}
ApiMessage == <<"quota exceeded">>
Responses ==
    [kind : {"exc"}, err : TransportErrors, status : {NoField}, msg : {NoField}, data : {0}]
    \cup [kind : {"json"}, err : {"-"}, status : {StatusOk}, msg : {NoField}, data : PayloadIds]
    \cup [kind : {"json"}, err : {"-"}, status : {StatusErr}, msg : {ApiMessage}, data : {0}]

\* A mutant: the result status is not checked, so an error payload is returned.
RequestBodyNoStatusCheck(resp) ==
    IF resp.kind = "exc"
    THEN [ok |-> FALSE, payload |-> 0, exc |-> [type |-> resp.err, msg |-> "transport"]]
    ELSE [ok |-> TRUE, payload |-> resp.data, exc |-> [type |-> "-", msg |-> "-"]]

\* One execution of the body of _request with raw=False.
RequestBody(resp) ==
    IF resp.kind = "exc"
    THEN [ok |-> FALSE, payload |-> 0, exc |-> [type |-> resp.err, msg |-> "transport"]]
    ELSE IF resp.status # StatusOk
         THEN [ok |-> FALSE, payload |-> 0,
               exc |-> [type |-> "RuntimeError",
                        msg |-> IF resp.msg = NoField THEN DefaultApiMessage
                                ELSE resp.msg[1]]]
         ELSE [ok |-> TRUE, payload |-> resp.data, exc |-> [type |-> "-", msg |-> "-"]]

\* tenacity: stop_after_attempt(3), evaluated after a failed attempt.
RetryStopOffByOne(attemptNumber) == attemptNumber > MaxAttempts
RetryStop(attemptNumber) == attemptNumber >= MaxAttempts

\* tenacity: wait_exponential(multiplier=1, min=2, max=10).  The wait after
\* failed attempt n is multiplier * exp_base ** e clamped to [min, max], where
\* e = n - 1 in current tenacity releases and e = n in older ones; the source
\* pins no release, so firstExp ranges over both.
WaitMultiplier == 1
WaitMin == 2
WaitMax == 10
ExpBase == 2
FirstExponents == {0, 1}
WaitExponential(attemptNumber, first) ==
    Max(Max(0, WaitMin),
        Min(WaitMultiplier * Pow(ExpBase, attemptNumber - 1 + first), WaitMax))

\* tenacity: the default retry predicate retries on every exception.
RetryOn(exc) == TRUE

\* _cache: the decorator caches only when streamlit is importable.
CacheEnabledInverted(st) == ~st
CacheEnabled(st) == st

\* st.cache_data(ttl=3600): an entry answers until ttl seconds after it was stored.
CacheHit(entry, t) == entry.present /\ t - entry.storedAt < TTL

\* The response bodies the model's server can send: payload d carries the
\* classification block below and d value rows.
T13 == <<"1", "3">>
T01 == <<"0", "1">>
T2019 == <<"2", "0", "1", "9">>
T2020 == <<"2", "0", "2", "0">>
T2021 == <<"2", "0", "2", "1">>
L2019 == T2019 \o <<"n", "e", "n">>
L2020 == T2020 \o <<"n", "e", "n">>
LTokyo == <<"T", "o", "k", "y", "o">>
LHokkaido == <<"H", "o", "k", "k", "a", "i", "d", "o">>

SampleClassObjs ==
    << [id |-> "area", name |-> "area",
        classes |-> << [code |-> T01, name |-> LHokkaido], [code |-> T13, name |-> LTokyo] >>],
       [id |-> "time", name |-> "time",
        classes |-> << [code |-> T2019, name |-> L2019], [code |-> T2020, name |-> L2020] >>] >>

SampleRow(i) ==
    [shape |-> "dict", cat01 |-> None, area |-> T13,
     time |-> IF i % 2 = 1 THEN T2019 ELSE T2020, tab |-> None, classCode |-> None,
     value |-> IF i % 2 = 1 THEN <<"1", "0", "0", "0">> ELSE <<"1", "2", "0", "0">>]

SampleValues(d) == [i \in 1..d |-> SampleRow(i)]

\* get, lines 122-126: the frame built from a payload.
GetFrame(d) == ValuesToFrame(SampleValues(d), NormalizeMeta(SampleClassObjs))

IdleCall ==
    [phase |-> "idle", key |-> "-", log |-> <<>>, waits |-> <<>>, fromCache |-> FALSE,
     startedAt |-> 0,
     payload |-> 0, frame |-> <<>>, exc |-> [type |-> "-", msg |-> "-"], prev |-> NoHist]

ClientInit ==
    /\ stAvail \in BOOLEAN
    /\ firstExp \in FirstExponents
    /\ cache = [k \in Keys |-> NoEntry]
    /\ now = 0
    /\ call = IdleCall
    /\ hist = [k \in Keys |-> NoHist]

\* get(stats_data_id, params): the cache lookup of cached_get; a hit returns
\* the stored payload and normalises it, a miss enters _request.
Get(k) ==
    /\ call.phase # "attempting"
    /\ IF CacheEnabled(stAvail) /\ CacheHit(cache[k], now)
       THEN /\ call' = [IdleCall EXCEPT !.phase = "returned", !.key = k,
                           !.fromCache = TRUE, !.startedAt = now,
                           !.payload = cache[k].payload,
                           !.frame = GetFrame(cache[k].payload), !.prev = hist[k]]
            /\ hist' = [hist EXCEPT ![k] =
                           [present |-> TRUE, at |-> now,
                            frame |-> GetFrame(cache[k].payload),
                            fetched |-> FALSE, netCalls |-> 0]]
       ELSE /\ call' = [IdleCall EXCEPT !.phase = "attempting", !.key = k,
                           !.startedAt = now, !.prev = hist[k]]
            /\ UNCHANGED hist
    /\ UNCHANGED <<stAvail, firstExp, cache, now>>
    /\ UNCHANGED notClient

\* One attempt of the retrying _request: the network call, the status check,
\* and tenacity's decision to return, re-raise, or sleep and retry.
Attempt(resp) ==
    /\ call.phase = "attempting"
    /\ LET res == RequestBody(resp)
           log2 == Append(call.log, [resp |-> resp, res |-> res])
       IN  IF res.ok
           THEN /\ call' = [call EXCEPT !.phase = "returned", !.log = log2,
                               !.payload = res.payload, !.frame = GetFrame(res.payload)]
                /\ cache' = IF CacheEnabled(stAvail)
                            THEN [cache EXCEPT ![call.key] =
                                     [present |-> TRUE, payload |-> res.payload,
                                      storedAt |-> now]]
                            ELSE cache
                /\ hist' = [hist EXCEPT ![call.key] =
                               [present |-> TRUE, at |-> now,
                                frame |-> GetFrame(res.payload),
                                fetched |-> TRUE, netCalls |-> Len(log2)]]
           ELSE /\ call' = IF ~RetryOn(res.exc) \/ RetryStop(Len(log2))
                           THEN [call EXCEPT !.phase = "raised", !.log = log2,
                                    !.exc = res.exc]
                           ELSE [call EXCEPT !.log = log2,
                                    !.waits = Append(call.waits,
                                                WaitExponential(Len(log2), firstExp))]
                /\ UNCHANGED <<cache, hist>>
    /\ UNCHANGED <<stAvail, firstExp, now>>
    /\ UNCHANGED notClient

\* Time passes between calls (the seconds a call takes are not modelled).
Tick ==
    /\ call.phase # "attempting"
    /\ now + ClockStep <= MaxTicks * ClockStep
    /\ now' = now + ClockStep
    /\ UNCHANGED <<stAvail, firstExp, cache, call, hist>>
    /\ UNCHANGED notClient

-----------------------------------------------------------------------------
(* Normalisation of one response: inputs and the step that builds the frame *)

MaxValLen == 3          \* longest "$" text enumerated exhaustively
MaxRows == 2            \* longest VALUE list of sample rows

ValueAlphabet == {"0", "5", "-", ".", "x"}
ValueTexts == SeqsUpTo(ValueAlphabet, MaxValLen) \cup {None}
T99 == <<"9", "9">>

\* One row with any "$" text, and lists of rows over a few representative fields.
AnyTextRows ==
    [shape : {"dict"}, cat01 : {None}, area : {None, T13}, time : {T2019},
     tab : {None}, classCode : {None}, value : ValueTexts]
SampleRows ==
    [shape : {"dict", "other"}, cat01 : {None}, area : {T13, T99}, time : {T2019},
     tab : {None}, classCode : {None},
     value : {None, Placeholder, <<"0">>, <<"1", "2">>, <<"x">>}]
FrameInputs == {<<r>> : r \in AnyTextRows} \cup SeqsUpTo(SampleRows, MaxRows)

\* Metadata blocks: none, the well-formed sample, an entry without "@id", and
\* entries with a null id or a null item code next to a well-formed entry.
ClassObjInputs ==
    {<<>>, SampleClassObjs,
     << [id |-> AbsentKey, name |-> "area",
         classes |-> << [code |-> T13, name |-> LTokyo] >>] >>,
     << [id |-> "time", name |-> "time",
         classes |-> << [code |-> None, name |-> L2019] >>],
        [id |-> "area", name |-> "area",
         classes |-> << [code |-> T13, name |-> LTokyo] >>] >>,
     << [id |-> NullId, name |-> "time",
         classes |-> << [code |-> T2019, name |-> L2019] >>],
        [id |-> "area", name |-> "area",
         classes |-> << [code |-> T13, name |-> LTokyo], [code |-> T01, name |-> LHokkaido] >>] >>}

NotBuilt == [done |-> FALSE, lookup |-> EmptyLookup, records |-> <<>>]

FrameInit ==
    /\ rawValues \in FrameInputs
    /\ classObjs \in ClassObjInputs
    /\ frame = NotBuilt

\* get, lines 122-126, on the response held in rawValues / classObjs.
BuildFrame ==
    /\ ~frame.done
    /\ frame' = [done |-> TRUE,
                 lookup |-> NormalizeMeta(classObjs),
                 records |-> ValuesToFrame(rawValues, NormalizeMeta(classObjs))]
    /\ UNCHANGED <<rawValues, classObjs>>
    /\ UNCHANGED notFrame

-----------------------------------------------------------------------------
(* Nowcast engine: nowcast.py *)

\* A series is [pts, nowcast]: pts the (year, value) pairs in index order,
\* nowcast the attrs["nowcast"] flag.
EmptySeries == [pts |-> <<>>, nowcast |-> FALSE]
YearsOf(pts) == {pts[i][1] : i \in 1..Len(pts)}
SetMax(S) == CHOOSE x \in S : \A y \in S : y <= x
SetMin(S) == CHOOSE x \in S : \A y \in S : x <= y
\* series.loc[year], for a year of the index
At(pts, year) == pts[CHOOSE i \in 1..Len(pts) : pts[i][1] = year][2]

RECURSIVE SortIndex(_)
SortIndex(pts) ==
    IF pts = <<>> THEN <<>>
    ELSE LET m == CHOOSE i \in 1..Len(pts) :
                     /\ \A j \in 1..Len(pts) : pts[i][1] <= pts[j][1]
                     /\ \A j \in 1..(i - 1) : pts[j][1] # pts[i][1]
         IN  <<pts[m]>> \o SortIndex(SubSeq(pts, 1, m - 1) \o SubSeq(pts, m + 1, Len(pts)))

Percent == 100

RECURSIVE GrowthProduct(_)
GrowthProduct(growth) ==
    IF growth = <<>> THEN ROne
    ELSE LET g == IF Head(growth) = Missing THEN RZero ELSE Head(growth)
         IN  RMul(RAdd(RDiv(g, RInt(Percent)), ROne), GrowthProduct(Tail(growth)))

\* _cumulative_growth: <<projected, rate>>
CumulativeGrowth(latest_value, monthly_growth) ==
    LET projected == RMul(latest_value, GrowthProduct(monthly_growth))
        rate == IF latest_value # RZero
                THEN RDiv(RSub(projected, latest_value), latest_value)
                ELSE RZero
    IN  <<projected, rate>>

RECURSIVE RPow(_, _)
RPow(x, e) == IF e = 0 THEN ROne ELSE RMul(x, RPow(x, e - 1))

RECURSIVE EwmSums(_, _, _)
\* <<sum of w_i * x_(n-i), sum of w_i>> for i = k..n-1, w_i = (1 - alpha)^i
EwmSums(vals, alpha, k) ==
    IF k >= Len(vals) THEN <<RZero, RZero>>
    ELSE LET w == RPow(RSub(ROne, alpha), k)
             rest == EwmSums(vals, alpha, k + 1)
         IN  <<RAdd(RMul(w, vals[Len(vals) - k]), rest[1]), RAdd(w, rest[2])>>

\* annual_series.ewm(alpha=alpha).mean().iloc[-1]
EwmLast(pts, alpha) ==
    LET vals == [i \in 1..Len(pts) |-> pts[i][2]]
        sums == EwmSums(vals, alpha, 0)
    IN  RDiv(sums[1], sums[2])

\* A mutant: the growth rates are used whenever there are any, whatever the method.
ProjectedIgnoresMethod(sorted, monthly_growth, method, alpha) ==
    LET latest_year == SetMax(YearsOf(sorted))
        latest_value == At(sorted, latest_year)
    IN  IF monthly_growth # <<>>
        THEN CumulativeGrowth(latest_value, monthly_growth)[1]
        ELSE EwmLast(sorted, alpha)

\* apply_nowcast, lines 34-38
Projected(sorted, monthly_growth, method, alpha) ==
    LET latest_year == SetMax(YearsOf(sorted))
        latest_value == At(sorted, latest_year)
    IN  IF method = "cumrate" /\ monthly_growth # <<>>
        THEN CumulativeGrowth(latest_value, monthly_growth)[1]
        ELSE EwmLast(sorted, alpha)

\* A mutant: the projection overwrites the latest point instead of extending the index.
ApplyNowcastOverwrite(in) ==
    IF in.series.pts = <<>>
    THEN [ret |-> "input", input |-> in.series, result |-> in.series]
    ELSE LET sorted == SortIndex(in.series.pts)
             n == Len(sorted)
             projected == Projected(sorted, in.growth, in.method, in.alpha)
         IN  [ret |-> "new", input |-> in.series,
              result |-> [pts |-> [sorted EXCEPT ![n] = <<sorted[n][1], projected>>],
                          nowcast |-> TRUE]]

\* apply_nowcast: ret says whether the object returned is the caller's own
\* series object or a new one; input is the caller's object after the call.
ApplyNowcast(in) ==
    IF in.series.pts = <<>>
    THEN [ret |-> "input", input |-> in.series, result |-> in.series]
    ELSE LET sorted == SortIndex(in.series.pts)
             latest_year == SetMax(YearsOf(sorted))
             projected == Projected(sorted, in.growth, in.method, in.alpha)
         IN  [ret |-> "new", input |-> in.series,
              result |-> [pts |-> Append(sorted, <<latest_year + 1, projected>>),
                          nowcast |-> TRUE]]

DefaultAlpha == Rat(3, 10)

MaxPts == 2             \* longest annual series given to apply_nowcast
MaxGrowth == 3          \* longest monthly growth series

NcYears == {2019, 2020, 2021}
NcValues == {RInt(0), RInt(1000)}
GrowthRates == {Missing, RInt(2), RInt(-1), RInt(3)}

\* Index orders: sequences of distinct years.
NcSeries ==
    {[pts |-> p, nowcast |-> FALSE] :
        p \in {q \in SeqsUpTo(NcYears \X NcValues, MaxPts) :
                 \A i, j \in 1..Len(q) : i # j => q[i][1] # q[j][1]}}

NcInputs ==
    {[series |-> sr, orig |-> sr, growth |-> g, method |-> m, alpha |-> DefaultAlpha] :
        sr \in NcSeries, g \in SeqsUpTo(GrowthRates, MaxGrowth), m \in {"cumrate", "ewm"}}

NcPending == [done |-> FALSE, ret |-> "-", result |-> EmptySeries]

NcInit == ncIn \in NcInputs /\ ncOut = NcPending

\* result = apply_nowcast(series, growth, method=method, alpha=alpha)
NowcastCall ==
    /\ ~ncOut.done
    /\ LET r == ApplyNowcast(ncIn)
       IN  /\ ncOut' = [done |-> TRUE, ret |-> r.ret, result |-> r.result]
           /\ ncIn' = [ncIn EXCEPT !.series = r.input]
    /\ UNCHANGED notNc

-----------------------------------------------------------------------------
(* KPI calculator and main pipeline: streamlit_app.py *)

NanCagr == [nan |-> TRUE, base |-> RZero, root |-> 1]
NoKpis == [done |-> FALSE, raised |-> FALSE, latest_year |-> 0, latest_value |-> Missing,
           yoy |-> Missing, cagr |-> NanCagr]
KpiRaised == [done |-> TRUE, raised |-> TRUE, latest_year |-> 0, latest_value |-> Missing,
              yoy |-> Missing, cagr |-> NanCagr]

\* series.dropna()
DropNa(pts) == SelectSeq(pts, LAMBDA p : p[2] # Missing)

\* (latest_value / first) ** (1 / years) - 1, kept as the pair (base, root):
\* the number base^(1/root) - 1.  A negative base under a fractional exponent
\* is NaN in float64 arithmetic.
PowerMinusOne(base, years) ==
    IF RLess(base, RZero) /\ years # 1
    THEN NanCagr
    ELSE [nan |-> FALSE, base |-> base, root |-> years]

\* _calculate_kpis.  On an empty series index.max() is NaN and .loc[NaN]
\* raises KeyError.
CalculateKpis(sr) ==
    LET pts == DropNa(sr.pts)
    IN  IF pts = <<>> THEN KpiRaised
        ELSE
        LET latest_year == SetMax(YearsOf(pts))
            latest_value == At(pts, latest_year)
            previous_value == IF latest_year - 1 \in YearsOf(pts)
                              THEN At(pts, latest_year - 1) ELSE Missing
            yoy == IF previous_value # Missing /\ previous_value # RZero
                   THEN RDiv(RSub(latest_value, previous_value), previous_value)
                   ELSE Missing
            start_year == SetMin(YearsOf(pts))
            years == IF latest_year # start_year THEN latest_year - start_year ELSE 1
            first == At(pts, start_year)
            cagr == IF first # RZero
                    THEN PowerMinusOne(RDiv(latest_value, first), years)
                    ELSE NanCagr
        IN  [done |-> TRUE, raised |-> FALSE, latest_year |-> latest_year,
             latest_value |-> latest_value, yoy |-> yoy, cagr |-> cagr]

PlaceholderLow == 18000
PlaceholderHigh == 25000

\* _create_placeholder: np.linspace(18000, 25000, len(years))
CreatePlaceholder(p) ==
    LET n == IF p[2] >= p[1] THEN p[2] - p[1] + 1 ELSE 0
        value(i) == IF n = 1 THEN RInt(PlaceholderLow)
                    ELSE RAdd(RInt(PlaceholderLow),
                              Rat((i - 1) * (PlaceholderHigh - PlaceholderLow), n - 1))
    IN  [numeric |-> TRUE,
         rows |-> [i \in 1..n |-> [time |-> p[1] + i - 1, value |-> value(i)]]]

YearDigits == 4

\* str.extract(r"(\d{4})"): the first run of four digits, or NaN.
ExtractYear(text) ==
    LET starts == {i \in 1..(Len(text) - YearDigits + 1) :
                      \A j \in i..(i + YearDigits - 1) : IsDigit(text[j])}
    IN  IF starts = {} THEN Missing
        ELSE <<DigitsValue(SubSeq(text, SetMin(starts), SetMin(starts) + YearDigits - 1))>>

\* lines 180-183: the time column as integer years (<<y>>), NaN where none.
TimeToYear(d, row) ==
    IF d.numeric THEN <<row.time>> ELSE ExtractYear(row.time)

\* lines 175-183: placeholder for an empty frame, numeric coercion, dropna.
CleanData(d, p) ==
    LET d1 == IF d.rows = <<>> THEN CreatePlaceholder(p) ELSE d
        withYear == [i \in 1..Len(d1.rows) |->
                        [time |-> TimeToYear(d1, d1.rows[i]), value |-> d1.rows[i].value]]
        kept == SelectSeq(withYear, LAMBDA r : r.time # Missing /\ r.value # Missing)
    IN  [numeric |-> TRUE,
         rows |-> [i \in 1..Len(kept) |-> [time |-> kept[i].time[1], value |-> kept[i].value]]]

RECURSIVE RowSum(_, _)
RowSum(rows, year) ==
    IF rows = <<>> THEN RZero
    ELSE RAdd(IF Head(rows).time = year THEN Head(rows).value ELSE RZero,
              RowSum(Tail(rows), year))

RECURSIVE SortedYears(_)
SortedYears(S) == IF S = {} THEN <<>> ELSE <<SetMin(S)>> \o SortedYears(S \ {SetMin(S)})

\* data.groupby("time")["value"].sum().sort_index()
GroupBySum(rows) ==
    LET ys == SortedYears({rows[i].time : i \in 1..Len(rows)})
    IN  [pts |-> [i \in 1..Len(ys) |-> <<ys[i], RowSum(rows, ys[i])>>], nowcast |-> FALSE]

MaxMainRows == 2        \* longest VALUE list fetched in the pipeline

Periods == {<<2019, 2019>>, <<2019, 2021>>}
MainRows ==
    [shape : {"dict"}, cat01 : {None}, area : {T13},
     time : {T2019, T2020, T2021, <<"x">>}, tab : {None}, classCode : {None},
     value : {Placeholder, <<"-", "1">>, <<"0">>, <<"2">>}]

\* The frame as main sees it: the time and value columns of client.get's result.
AsData(records) ==
    [numeric |-> FALSE,
     rows |-> [i \in 1..Len(records) |-> [time |-> records[i].time, value |-> records[i].value]]]

NoData == [numeric |-> FALSE, rows |-> <<>>]

MainInit ==
    /\ mpc = "fetch"
    /\ period \in Periods
    /\ useNowcast \in BOOLEAN
    /\ data = NoData
    /\ series = EmptySeries
    /\ kpis = NoKpis

\* lines 161-173, the fetch succeeds: data = client.get(...)
FetchOk(values) ==
    /\ mpc = "fetch"
    /\ data' = AsData(ValuesToFrame(values, NormalizeMeta(SampleClassObjs)))
    /\ mpc' = "prepare"
    /\ UNCHANGED <<period, useNowcast, series, kpis>>
    /\ UNCHANGED notMain

\* lines 161-173, no credential or the fetch raises: data = _create_placeholder(period)
FetchFailed ==
    /\ mpc = "fetch"
    /\ data' = CreatePlaceholder(period)
    /\ mpc' = "prepare"
    /\ UNCHANGED <<period, useNowcast, series, kpis>>
    /\ UNCHANGED notMain

\* lines 175-186
PrepareSeries ==
    /\ mpc = "prepare"
    /\ data' = CleanData(data, period)
    /\ series' = GroupBySum(CleanData(data, period).rows)
    /\ mpc' = "nowcast"
    /\ UNCHANGED <<period, useNowcast, kpis>>
    /\ UNCHANGED notMain

\* lines 188-192
AdjustSeries ==
    /\ mpc = "nowcast"
    /\ series' = IF useNowcast
                 THEN ApplyNowcast([series |-> series, growth |-> <<>>,
                                    method |-> "cumrate", alpha |-> DefaultAlpha]).result
                 ELSE series
    /\ mpc' = "kpis"
    /\ UNCHANGED <<period, useNowcast, data, kpis>>
    /\ UNCHANGED notMain

\* line 194: an exception of _calculate_kpis is not caught and ends the run.
ComputeKpis ==
    /\ mpc = "kpis"
    /\ kpis' = CalculateKpis(series)
    /\ mpc' = IF CalculateKpis(series).raised THEN "crashed" ELSE "render"
    /\ UNCHANGED <<period, useNowcast, data, series>>
    /\ UNCHANGED notMain

-----------------------------------------------------------------------------
(* Credential resolution: streamlit_app.py, _load_estat_client *)

IsSpace(c) == c = " "

RECURSIVE LStrip(_)
LStrip(t) == IF t # <<>> /\ IsSpace(Head(t)) THEN LStrip(Tail(t)) ELSE t

RECURSIVE RStrip(_)
RStrip(t) ==
    IF t # <<>> /\ IsSpace(t[Len(t)]) THEN RStrip(SubSeq(t, 1, Len(t) - 1)) ELSE t

\* str.strip()
Strip(t) == RStrip(LStrip(t))

\* The values one source can hold: unset (None), empty, blank, a key, a padded key.
SourceValues(c) == {None, <<>>, <<" ">>, <<c>>, <<" ", c, " ">>}

CredInputs ==
    [api_key : SourceValues("a"),      \* the argument; None when the caller has none
     session : SourceValues("s"),      \* st.session_state["estat_api_key"]; None: no such key
     secret : SourceValues("c"),       \* st.secrets["ESTAT_APP_ID"]; None: no such key
     env : SourceValues("e")]          \* os.environ["ESTAT_APP_ID"]; None: unset

Pending == [done |-> FALSE, ok |-> FALSE, app_id |-> <<>>]
Built(app_id) == [done |-> TRUE, ok |-> TRUE, app_id |-> app_id]
AuthMissing == [done |-> TRUE, ok |-> FALSE, app_id |-> <<>>]

\* A mutant: the environment variable is consulted before the secret store.
LoadEstatClientEnvFirst(in) ==
    LET a1 == IF in.api_key = None THEN <<>> ELSE Strip(in.api_key)
        a2 == IF a1 = <<>> /\ in.session # None /\ Strip(in.session) # <<>>
              THEN Strip(in.session) ELSE a1
        a3 == IF a2 = <<>> THEN (IF in.env = None THEN <<>> ELSE Strip(in.env)) ELSE a2
        a4 == IF a3 = <<>> /\ in.secret # None THEN Strip(in.secret) ELSE a3
    IN  IF a4 = <<>> THEN AuthMissing ELSE Built(a4)

LoadEstatClient(in) ==
    LET a1 == IF in.api_key = None THEN <<>> ELSE Strip(in.api_key)
        a2 == IF a1 = <<>> /\ in.session # None /\ Strip(in.session) # <<>>
              THEN Strip(in.session) ELSE a1
        a3 == IF a2 = <<>> /\ in.secret # None THEN Strip(in.secret) ELSE a2
        a4 == IF a3 = <<>> THEN (IF in.env = None THEN <<>> ELSE Strip(in.env)) ELSE a3
    IN  IF a4 = <<>> THEN AuthMissing ELSE Built(a4)

CredInit == credIn \in CredInputs /\ credOut = Pending

\* client = _load_estat_client(estat_api_key)
LoadClient ==
    /\ ~credOut.done
    /\ credOut' = LoadEstatClient(credIn)
    /\ UNCHANGED credIn
    /\ UNCHANGED notCred

-----------------------------------------------------------------------------
(* Industry matcher: jsic_mapper.py *)

\* str.lower()
LowerChar(c) == CASE c = "A" -> "a" [] c = "B" -> "b" [] OTHER -> c
Lower(t) == [i \in 1..Len(t) |-> LowerChar(t[i])]

\* needle in haystack
Contains(haystack, needle) ==
    \E i \in 1..(Len(haystack) - Len(needle) + 1) :
        SubSeq(haystack, i, i + Len(needle) - 1) = needle

\* Length of the common run of a from i and b from j, inside a[..ahi-1], b[..bhi-1].
RECURSIVE RunLen(_, _, _, _, _, _)
RunLen(a, b, i, j, ahi, bhi) ==
    IF i < ahi /\ j < bhi /\ a[i] = b[j] THEN 1 + RunLen(a, b, i + 1, j + 1, ahi, bhi) ELSE 0

\* SequenceMatcher.find_longest_match(alo, ahi, blo, bhi) without junk:
\* the longest block, the earliest in a, and of those the earliest in b.
FindLongestMatch(a, b, alo, ahi, blo, bhi) ==
    LET cands == (alo..(ahi - 1)) \X (blo..(bhi - 1))
        k(c) == RunLen(a, b, c[1], c[2], ahi, bhi)
    IN  IF cands = {} THEN <<alo, blo, 0>>
        ELSE LET best == CHOOSE c \in cands :
                            \A d \in cands :
                               \/ k(c) > k(d)
                               \/ k(c) = k(d) /\ c[1] < d[1]
                               \/ k(c) = k(d) /\ c[1] = d[1] /\ c[2] <= d[2]
             IN  <<best[1], best[2], k(best)>>

\* SequenceMatcher.get_matching_blocks: the total size of the blocks.
RECURSIVE MatchedSize(_, _, _, _, _, _)
MatchedSize(a, b, alo, ahi, blo, bhi) ==
    LET m == FindLongestMatch(a, b, alo, ahi, blo, bhi)
    IN  IF m[3] = 0 THEN 0
        ELSE m[3] + MatchedSize(a, b, alo, m[1], blo, m[2])
                  + MatchedSize(a, b, m[1] + m[3], ahi, m[2] + m[3], bhi)

\* SequenceMatcher(a=a, b=b).ratio()
Ratio(a, b) ==
    IF Len(a) + Len(b) = 0 THEN ROne
    ELSE Rat(2 * MatchedSize(a, b, 1, Len(a) + 1, 1, Len(b) + 1), Len(a) + Len(b))

CombinedBonus == Rat(2, 10)
LabelBonus == Rat(3, 10)
RMin(x, y) == IF RLeq(x, y) THEN x ELSE y

\* _score(query, keywords)
Score(q, keywords) ==
    LET ratio == Ratio(Lower(q), Lower(keywords))
    IN  RMin(IF Contains(keywords, q) THEN RAdd(ratio, CombinedBonus) ELSE ratio, ROne)

\* The body of guess_jsic's loop for one catalog entry.
EntryScore(q, item) ==
    LET score == Score(q, item.label \o <<",">> \o item.keywords)
    IN  RMin(IF Contains(Lower(item.label), q) THEN RAdd(score, LabelBonus) ELSE score, ROne)

\* A mutant: descending, but entries of equal score come out in reverse order.
RECURSIVE SortByScoreTiesReversed(_)
SortByScoreTiesReversed(items) ==
    IF items = <<>> THEN <<>>
    ELSE LET m == CHOOSE i \in 1..Len(items) :
                     /\ \A j \in 1..Len(items) : RLeq(items[j].score, items[i].score)
                     /\ \A j \in (i + 1)..Len(items) : RLess(items[j].score, items[i].score)
         IN  <<items[m]>> \o SortByScoreTiesReversed(SubSeq(items, 1, m - 1) \o SubSeq(items, m + 1, Len(items)))

\* ranked.sort(key=score, reverse=True): stable, descending.
RECURSIVE SortByScore(_)
SortByScore(items) ==
    IF items = <<>> THEN <<>>
    ELSE LET m == CHOOSE i \in 1..Len(items) :
                     /\ \A j \in 1..Len(items) : RLeq(items[j].score, items[i].score)
                     /\ \A j \in 1..(i - 1) : RLess(items[j].score, items[i].score)
         IN  <<items[m]>> \o SortByScore(SubSeq(items, 1, m - 1) \o SubSeq(items, m + 1, Len(items)))

\* ranked[:limit], limit >= 0
Truncate(items, n) == SubSeq(items, 1, Min(n, Len(items)))

\* A mutant: the label bonus is not added.
GuessJsicNoLabelBonus(industry_name, n, records) ==
    IF industry_name = <<>> THEN <<>>
    ELSE LET q == Lower(Strip(industry_name))
             scored == [i \in 1..Len(records) |->
                          [label |-> records[i].label, jsic_code |-> records[i].jsic_code,
                           score |-> Score(q, records[i].label \o <<",">> \o records[i].keywords)]]
         IN  Truncate(SortByScore(scored), n)

\* A mutant: the query is trimmed before the empty-query check.
GuessJsicStripFirst(industry_name, n, records) ==
    LET q == Lower(Strip(industry_name))
        scored == [i \in 1..Len(records) |->
                     [label |-> records[i].label, jsic_code |-> records[i].jsic_code,
                      score |-> EntryScore(q, records[i])]]
    IN  IF q = <<>> THEN <<>> ELSE Truncate(SortByScore(scored), n)

\* guess_jsic(industry_name, limit) over the seed records
GuessJsic(industry_name, n, records) ==
    IF industry_name = <<>> THEN <<>>
    ELSE LET q == Lower(Strip(industry_name))
             scored == [i \in 1..Len(records) |->
                          [label |-> records[i].label, jsic_code |-> records[i].jsic_code,
                           score |-> EntryScore(q, records[i])]]
         IN  Truncate(SortByScore(scored), n)

MaxCatalog == 2         \* entries in the seed catalog
MaxLimit == 2           \* largest limit asked for

TA == <<"a">>
TAB == <<"a", "b">>
TCapAb == <<"A", "b">>
TBA == <<"b", "a">>
SeedLabels == {TA, TAB, TCapAb, TBA}
SeedKeywords == {<<>>, <<"b">>, <<"x", "x", "x", "x">>}
QueryTexts == SeedLabels \cup {<<>>, <<" ">>, <<" ", " ">>, <<" ", "a">>, <<"x">>}

\* A catalog: entry i carries jsic_code i.
Catalogs ==
    {[i \in 1..Len(c) |-> [label |-> c[i][1], keywords |-> c[i][2], jsic_code |-> i]] :
        c \in SeqsUpTo(SeedLabels \X SeedKeywords, MaxCatalog)}

NotRanked == [done |-> FALSE, items |-> <<>>]

MatchInit ==
    /\ catalog \in Catalogs
    /\ query \in QueryTexts
    /\ limit \in 0..MaxLimit
    /\ ranked = NotRanked

\* suggestions = jsic_mapper.guess_jsic(industry, limit)
Rank ==
    /\ ~ranked.done
    /\ ranked' = [done |-> TRUE, items |-> GuessJsic(query, limit, catalog)]
    /\ UNCHANGED <<catalog, query, limit>>
    /\ UNCHANGED notMatch

-----------------------------------------------------------------------------
(* Specifications: one per component; the variables of the other           *)
(* components stay Idle.                                                    *)

ClientIdle == stAvail = Idle /\ firstExp = Idle /\ cache = Idle /\ now = Idle /\ call = Idle /\ hist = Idle
CredIdle == credIn = Idle /\ credOut = Idle
FrameIdle == rawValues = Idle /\ classObjs = Idle /\ frame = Idle
MainIdle == mpc = Idle /\ period = Idle /\ data = Idle /\ useNowcast = Idle /\ series = Idle /\ kpis = Idle
NcIdle == ncIn = Idle /\ ncOut = Idle
MatchIdle == catalog = Idle /\ query = Idle /\ limit = Idle /\ ranked = Idle

ClientNext ==
    \/ \E k \in Keys : Get(k)
    \/ \E resp \in Responses : Attempt(resp)
    \/ Tick

InitClient == ClientInit /\ CredIdle /\ FrameIdle /\ MainIdle /\ NcIdle /\ MatchIdle

SpecClient == InitClient /\ [][ClientNext]_vars

CredNext == LoadClient

InitCred == CredInit /\ ClientIdle /\ FrameIdle /\ MainIdle /\ NcIdle /\ MatchIdle

SpecCred == InitCred /\ [][CredNext]_vars

FrameNext == BuildFrame

InitFrame == FrameInit /\ ClientIdle /\ CredIdle /\ MainIdle /\ NcIdle /\ MatchIdle

SpecFrame == InitFrame /\ [][FrameNext]_vars

NcNext == NowcastCall

InitNowcast == NcInit /\ ClientIdle /\ CredIdle /\ FrameIdle /\ MainIdle /\ MatchIdle

SpecNowcast == InitNowcast /\ [][NcNext]_vars

MainNext ==
    \/ \E values \in SeqsUpTo(MainRows, MaxMainRows) : FetchOk(values)
    \/ FetchFailed
    \/ PrepareSeries
    \/ AdjustSeries
    \/ ComputeKpis

InitMain == MainInit /\ ClientIdle /\ CredIdle /\ FrameIdle /\ NcIdle /\ MatchIdle

SpecMain == InitMain /\ [][MainNext]_vars

MatchNext == Rank

InitMatch == MatchInit /\ ClientIdle /\ CredIdle /\ FrameIdle /\ MainIdle /\ NcIdle

SpecMatch == InitMatch /\ [][MatchNext]_vars

-----------------------------------------------------------------------------
(* Claims about the statistics client, checked under SpecClient *)

TransientFailure(e) == e.resp.kind = "exc"
ApiFailure(e) == e.resp.kind = "json" /\ ~e.res.ok

\* C1: a fetch whose attempts fail only transiently makes its network calls
\* one after another until the first success and never more than 3: when
\* attempt k is the first to succeed the call returns that attempt's payload
\* after exactly k calls; when all 3 fail it raises the third attempt's own
\* error and makes no fourth attempt.
C1_RetryUntilFirstSuccess ==
    LET log == call.log
        n == Len(log)
    IN  (\A i \in 1..n : log[i].res.ok \/ TransientFailure(log[i])) =>
            /\ n <= 3
            /\ \A i \in 1..(n - 1) : ~log[i].res.ok
            /\ (call.phase = "returned" /\ ~call.fromCache) =>
                  /\ n >= 1 /\ log[n].res.ok
                  /\ call.payload = log[n].resp.data
            /\ call.phase = "raised" =>
                  /\ n = 3 /\ ~log[3].res.ok
                  /\ call.exc.type = log[3].resp.err
            /\ call.phase = "attempting" => (n < 3 /\ \A i \in 1..n : ~log[i].res.ok)

\* C1 witness: two transient failures, then a success on the third call.
C1_Witness ==
    /\ call.phase = "returned" /\ Len(call.log) = 3
    /\ TransientFailure(call.log[1]) /\ TransientFailure(call.log[2])
    /\ call.log[3].res.ok

\* C2 (as claimed): a payload with a non-success result status makes the call
\* raise the API's message at once: that attempt is the invocation's only
\* network call and no retry follows it.
C2_ApiErrorNotRetried ==
    \A i \in 1..Len(call.log) :
        ApiFailure(call.log[i]) =>
            /\ i = 1 /\ Len(call.log) = 1
            /\ call.phase = "raised"
            /\ call.exc.msg = call.log[i].resp.msg[1]

\* C3 (as claimed): a get made within the TTL of a successful get with the
\* same arguments issues, together with it, at most one network call and
\* returns a value-equal frame, in every configuration of the client.
C3_AtMostOneCallAnyConfig ==
    (/\ call.phase = "returned" /\ call.prev.present
     /\ call.startedAt - call.prev.at < TTL) =>
        /\ call.prev.netCalls + Len(call.log) <= 1
        /\ call.frame = call.prev.frame

\* C3 (amended): with the caching backend available, a get made within the
\* TTL of a get with the same arguments that fetched successfully from the
\* network issues no network call and returns a value-equal frame.
C3_CachedWithinTtl ==
    (/\ stAvail
     /\ call.phase = "returned" /\ call.prev.present /\ call.prev.fetched
     /\ call.startedAt - call.prev.at < TTL) =>
        /\ Len(call.log) = 0 /\ call.fromCache
        /\ call.frame = call.prev.frame

\* C3 witness: a later get answered from the cache within the TTL.
C3_Witness ==
    /\ stAvail /\ call.phase = "returned" /\ call.fromCache
    /\ call.prev.present /\ call.prev.fetched
    /\ call.startedAt > call.prev.at /\ call.startedAt - call.prev.at < TTL
    /\ call.frame = call.prev.frame /\ Len(call.frame) > 0

-----------------------------------------------------------------------------
(* Claims about credential resolution, checked under SpecCred *)

\* The four sources in the claimed order, each trimmed (an unset source is empty).
CredSources ==
    LET trimmed(v) == IF v = None THEN <<>> ELSE Strip(v)
    IN  <<trimmed(credIn.api_key), trimmed(credIn.session),
          trimmed(credIn.secret), trimmed(credIn.env)>>

\* C4: the credential used is the first of explicit key, session key, secret
\* store entry, environment variable that is non-empty after trimming; a
\* later source is never used when an earlier one is non-empty; when all four
\* are absent or blank, construction fails and no client is created.
C4_CredentialPrecedence ==
    credOut.done =>
        LET nonEmpty == {i \in 1..4 : CredSources[i] # <<>>}
        IN  IF nonEmpty = {}
            THEN ~credOut.ok
            ELSE LET first == CHOOSE i \in nonEmpty : \A j \in nonEmpty : i <= j
                 IN  credOut.ok /\ credOut.app_id = CredSources[first]

\* C4 witness: a blank explicit key and no session key; the secret store
\* entry is used although the environment variable is set too.
C4_Witness ==
    /\ credOut.done /\ credOut.ok
    /\ credIn.api_key = <<" ">> /\ credIn.session = None
    /\ credIn.secret = <<" ", "c", " ">> /\ credIn.env = <<"e">>
    /\ credOut.app_id = <<"c">>

-----------------------------------------------------------------------------
(* Claims about normalisation, checked under SpecFrame *)

\* The positions of the rows that pass validation, in input order.
ValidRows == SelectSeq([i \in 1..Len(rawValues) |-> i],
                       LAMBDA i : rawValues[i].shape = "dict")

\* C6: in every record get produces, the value is the missing marker when
\* the raw value is absent, is the placeholder "-", or does not parse as a
\* number; it is zero only when the raw text parses to zero; the record of a
\* missing or unparsable value is emitted, not dropped.
C6_MissingNeverZero ==
    frame.done =>
        /\ Len(frame.records) = Len(ValidRows)
        /\ \A j \in 1..Len(ValidRows) :
              LET raw == rawValues[ValidRows[j]].value
                  unusable == raw = None \/ raw = <<"-">> \/ PyFloat(raw) = ParseFail
                  v == frame.records[j].value
              IN  /\ unusable => v = Missing
                  /\ ~unusable => v = PyFloat(raw)
                  /\ v = RZero => (~unusable /\ PyFloat(raw) = RZero)

\* C6 witness: an unparsable value and a textual zero in one response give a
\* missing value and a zero, both emitted.
C6_Witness ==
    /\ frame.done /\ Len(rawValues) = 2 /\ Len(frame.records) = 2
    /\ rawValues[1].value = <<"x">> /\ frame.records[1].value = Missing
    /\ rawValues[2].value = <<"0">> /\ frame.records[2].value = RZero

-----------------------------------------------------------------------------
(* Claims about the nowcast engine, checked under SpecNowcast *)

PairsOf(pts) == {pts[i] : i \in 1..Len(pts)}

\* C7: on a non-empty series apply_nowcast returns a series holding every
\* input (year, value) pair unchanged plus exactly one new entry, at latest
\* input year + 1, flagged as nowcast, and leaves the caller's series
\* unmodified and unflagged; on an empty series it returns the input itself,
\* unchanged, with no entry added.
C7_NowcastAppendsOne ==
    ncOut.done =>
        /\ ncIn.series = ncIn.orig
        /\ IF ncIn.orig.pts = <<>>
           THEN ncOut.ret = "input" /\ ncOut.result = ncIn.orig
           ELSE LET next == SetMax(YearsOf(ncIn.orig.pts)) + 1
                    added == PairsOf(ncOut.result.pts) \ PairsOf(ncIn.orig.pts)
                IN  /\ PairsOf(ncIn.orig.pts) \subseteq PairsOf(ncOut.result.pts)
                    /\ Len(ncOut.result.pts) = Len(ncIn.orig.pts) + 1
                    /\ Cardinality(added) = 1
                    /\ \A p \in added : p[1] = next
                    /\ ncOut.result.nowcast
                    /\ ncOut.ret = "new" /\ ~ncIn.series.nowcast

\* C7 witness: a two-point series given out of index order is extended by
\* one entry at the year after its latest.
C7_Witness ==
    /\ ncOut.done /\ Len(ncIn.orig.pts) = 2
    /\ ncIn.orig.pts[1][1] = 2021 /\ ncIn.orig.pts[2][1] = 2019
    /\ Len(ncOut.result.pts) = 3 /\ ncOut.result.pts[3][1] = 2022
    /\ ncOut.result.nowcast

-----------------------------------------------------------------------------
(* Claims about the KPI calculator, checked under SpecMain *)

KpiPts == DropNa(series.pts)
KpiLatestYear == SetMax(YearsOf(KpiPts))
KpiFirstYear == SetMin(YearsOf(KpiPts))

\* C5 (as claimed): KPI computation never raises on absent data; for a
\* series that is empty (or empty once missing values are dropped) it
\* reports undefined fields and the workflow goes on.
C5_KpisNeverRaise ==
    (mpc \in {"render", "crashed"} /\ KpiPts = <<>>) =>
        /\ mpc = "render" /\ ~kpis.raised
        /\ kpis.yoy = Missing /\ kpis.cagr.nan

\* C8 (as claimed): for a non-empty series CAGR = (latest / first)^(1/span) - 1,
\* first the value at the minimum year, latest the value at the maximum
\* year, span their distance or 1 when that is 0; CAGR is undefined whenever
\* the first value is zero or negative.
C8_Cagr ==
    (kpis.done /\ KpiPts # <<>>) =>
        LET first == At(KpiPts, KpiFirstYear)
            latest == At(KpiPts, KpiLatestYear)
            span == IF KpiLatestYear - KpiFirstYear = 0 THEN 1
                    ELSE KpiLatestYear - KpiFirstYear
        IN  /\ ~kpis.raised
            /\ IF RLeq(first, RZero)
               THEN kpis.cagr.nan
               ELSE \/ RLess(latest, RZero) /\ span > 1 /\ kpis.cagr.nan
                    \/ /\ ~kpis.cagr.nan
                       /\ kpis.cagr.base = RDiv(latest, first)
                       /\ kpis.cagr.root = span

\* C9 (as claimed): for a non-empty series year-over-year is
\* (latest - previous) / previous, previous the value stored at exactly
\* latest year - 1; it is undefined when there is no such entry or when
\* that value is zero or negative.
C9_Yoy ==
    (kpis.done /\ KpiPts # <<>>) =>
        LET latest == At(KpiPts, KpiLatestYear)
            hasPrev == KpiLatestYear - 1 \in YearsOf(KpiPts)
        IN  /\ ~kpis.raised
            /\ IF ~hasPrev \/ RLeq(At(KpiPts, KpiLatestYear - 1), RZero)
               THEN kpis.yoy = Missing
               ELSE kpis.yoy = RDiv(RSub(latest, At(KpiPts, KpiLatestYear - 1)),
                                    At(KpiPts, KpiLatestYear - 1))

-----------------------------------------------------------------------------
(* Claims about the industry matcher, checked under SpecMatch *)

\* The entries whose label is the query, character for character.
VerbatimEntries == {i \in 1..Len(catalog) : catalog[i].label = query}
DistinctLabels ==
    \A i, j \in 1..Len(catalog) : i # j => catalog[i].label # catalog[j].label

\* C10 (as claimed): a query equal to an entry's label verbatim gives that
\* entry score 1.0 and the first place, whatever its keyword string and
\* whatever the other entries (here: for catalogs of distinct labels and a
\* limit of at least 1).
C10_VerbatimLabelFirst ==
    (ranked.done /\ limit >= 1 /\ DistinctLabels) =>
        \A i \in VerbatimEntries :
            /\ ranked.items # <<>>
            /\ ranked.items[1].jsic_code = i
            /\ ranked.items[1].score = ROne

\* The labels for which the amended claim speaks: non-empty, no upper-case
\* letter, no surrounding blank, a keyword string of at most
\* 2 * len(label) - 1 characters, and a "label,keywords" text below the 200
\* characters from which difflib discards popular characters.
PlainShortKeyword(item) ==
    /\ item.label # <<>>
    /\ Lower(item.label) = item.label
    /\ Strip(item.label) = item.label
    /\ Len(item.keywords) + 1 <= 2 * Len(item.label)
    /\ Len(item.label) + 1 + Len(item.keywords) < 200

\* C10 (amended): for such an entry a query equal to its label gives it
\* score 1.0, and it is placed after only those entries that also score 1.0
\* and precede it in the catalog: it is in the result behind them, or the
\* result is filled by them.
C10_VerbatimLabelScoresOne ==
    ranked.done =>
        \A i \in VerbatimEntries :
            PlainShortKeyword(catalog[i]) =>
                LET pos == {p \in 1..Len(ranked.items) : ranked.items[p].jsic_code = i}
                    ahead == IF pos = {} THEN 1..Len(ranked.items)
                             ELSE 1..((CHOOSE p \in pos : TRUE) - 1)
                IN  /\ pos = {} => Len(ranked.items) = limit
                    /\ \A p \in pos : ranked.items[p].score = ROne
                    /\ \A p \in ahead : /\ ranked.items[p].score = ROne
                                        /\ ranked.items[p].jsic_code < i

\* C10 witness: the second entry's label is the query; it scores 1.0 and is
\* placed first, ahead of an entry that scores less.
C10_Witness ==
    /\ ranked.done /\ Len(catalog) = 2 /\ Len(ranked.items) = 2
    /\ catalog[2].label = query /\ PlainShortKeyword(catalog[2])
    /\ ranked.items[1].jsic_code = 2 /\ ranked.items[1].score = ROne
    /\ RLess(ranked.items[2].score, ROne)


-----------------------------------------------------------------------------
(* Claims about the ranking contract, checked under SpecMatch *)

\* The catalog positions (jsic_code is the position) that made it into the result.
RankedCodes == {ranked.items[i].jsic_code : i \in 1..Len(ranked.items)}

\* C11: for a non-empty query and a limit >= 0 the result has exactly
\* min(limit, catalog size) entries, every score lies in [0, 1], scores never
\* increase along the result, entries of equal score keep their catalog order,
\* and no entry left out scores strictly more than one that is included.
C11_RankingContract ==
    (ranked.done /\ query # <<>>) =>
        LET items == ranked.items
            q == Lower(Strip(query))
        IN  /\ Len(items) = Min(limit, Len(catalog))
            /\ \A i \in 1..Len(items) :
                   /\ RLeq(RZero, items[i].score) /\ RLeq(items[i].score, ROne)
                   /\ items[i].jsic_code \in 1..Len(catalog)
                   /\ items[i].label = catalog[items[i].jsic_code].label
            /\ \A i, j \in 1..Len(items) :
                   i < j => /\ RLeq(items[j].score, items[i].score)
                            /\ items[i].jsic_code # items[j].jsic_code
                            /\ (items[i].score = items[j].score
                                  => items[i].jsic_code < items[j].jsic_code)
            /\ \A k \in (1..Len(catalog)) \ RankedCodes :
                   \A i \in 1..Len(items) :
                       ~RLess(items[i].score, EntryScore(q, catalog[k]))

\* Two entries tie on a positive score below 1 and both are in the result.
C11_Witness ==
    /\ ranked.done
    /\ query # <<>>
    /\ Len(ranked.items) = 2
    /\ ranked.items[1].score = ranked.items[2].score
    /\ RLess(RZero, ranked.items[1].score)
    /\ RLess(ranked.items[1].score, ROne)
    /\ ranked.items[1].jsic_code = 1
    /\ ranked.items[2].jsic_code = 2


-----------------------------------------------------------------------------
(* Claims about dropped rows and malformed metadata, checked under SpecFrame *)

\* The number of rows of a VALUE list that fail validation.
DroppedRows(values) == Len(values) - Len(SelectSeq(values, RowValid))

\* C12: normalising a data block with invalid rows never raises; an invalid
\* row gives no record, every other row gives exactly one record, in input
\* order, and the number of dropped rows is counted: what normalisation
\* yields tells how many rows were dropped, so two data blocks that yield the
\* same result have the same number of dropped rows.
C12_DroppedRowsCounted ==
    frame.done =>
        LET lookup == NormalizeMeta(classObjs)
        IN  /\ Len(frame.records) = Len(ValidRows)
            /\ \A j \in 1..Len(ValidRows) :
                   frame.records[j] = ToRecord(rawValues[ValidRows[j]], lookup)
            /\ \A other \in SeqsUpTo(SampleRows, MaxRows) :
                   ValuesToFrame(other, lookup) = frame.records
                       => DroppedRows(other) = DroppedRows(rawValues)

\* A dimension entry that carries an id and whose items all parse.
WellFormed(obj) ==
    /\ obj.id \notin {AbsentKey, NullId}
    /\ \A i \in 1..Len(obj.classes) :
          obj.classes[i].code # None /\ obj.classes[i].name # None

\* The ids of the well-formed entries of the metadata block.
WellFormedIds == {classObjs[i].id : i \in {j \in 1..Len(classObjs) : WellFormed(classObjs[j])}}

-----------------------------------------------------------------------------
(* Claims about the projected value, checked under SpecNowcast *)

\* v compounded by each rate of the sequence in turn, a null rate being 0%.
RECURSIVE Compounded(_, _)
Compounded(v, growth) ==
    IF growth = <<>> THEN v
    ELSE LET g == Head(growth)
             factor == IF g = Missing THEN ROne
                       ELSE Rat(100 * g[2] + g[1], 100 * g[2])
         IN  Compounded(RMul(v, factor), Tail(growth))

\* The value of the k-th point of the caller's series in year order.
ValueInYearOrder(k) ==
    LET pts == ncIn.orig.pts
        p == CHOOSE i \in 1..Len(pts) :
                Cardinality({j \in 1..Len(pts) : pts[j][1] < pts[i][1]}) = k - 1
    IN  pts[p][2]

\* The exponentially weighted moving average after the first k points, as
\* <<numerator, denominator>>: each step discounts both by (1 - alpha).
RECURSIVE SmoothedUpTo(_, _)
SmoothedUpTo(k, alpha) ==
    IF k = 1 THEN <<ValueInYearOrder(1), ROne>>
    ELSE LET prev == SmoothedUpTo(k - 1, alpha)
             keep == RSub(ROne, alpha)
         IN  <<RAdd(ValueInYearOrder(k), RMul(keep, prev[1])), RAdd(ROne, RMul(keep, prev[2]))>>

\* The entry apply_nowcast appended.
Appended == ncOut.result.pts[Len(ncOut.result.pts)]

\* C14: for a non-empty series the appended value is the latest observed
\* value compounded by every supplied growth rate (null rates as 0%) exactly
\* when the cumulative method is requested and the growth sequence is
\* non-empty; otherwise it is the final value of the exponentially weighted
\* moving average of the whole series, whatever the growth rates are.
C14_ProjectedValue ==
    (ncOut.done /\ ncIn.orig.pts # <<>>) =>
        LET n == Len(ncIn.orig.pts)
            latest_value == ValueInYearOrder(n)
            cumulative == ncIn.method = "cumrate" /\ ncIn.growth # <<>>
            ewma == SmoothedUpTo(n, ncIn.alpha)
        IN  /\ Len(ncOut.result.pts) = n + 1
            /\ cumulative => Appended[2] = Compounded(latest_value, ncIn.growth)
            /\ ~cumulative => Appended[2] = RDiv(ewma[1], ewma[2])

\* C14 witness: rates 2, -1, 3 percent on a latest value of 1000 give 1040.094.
C14_Witness ==
    /\ ncOut.done
    /\ ncIn.method = "cumrate"
    /\ ncIn.growth = <<RInt(2), RInt(-1), RInt(3)>>
    /\ Len(ncIn.orig.pts) = 2
    /\ ncIn.orig.pts[1] = <<2020, RInt(1000)>>
    /\ ncIn.orig.pts[2][1] = 2019
    /\ Appended = <<2021, Rat(1040094, 1000)>>

-----------------------------------------------------------------------------
(* Claims about backoff and about what the cache holds, checked under SpecClient *)

RECURSIVE TotalWait(_)
TotalWait(waits) == IF waits = <<>> THEN 0 ELSE Head(waits) + TotalWait(Tail(waits))

\* C15: the delay between consecutive fetch attempts starts at 2 time units,
\* doubles with each further attempt and never exceeds 10: the wait after the
\* first failed attempt is 2, the wait after the second is 4, and a call that
\* exhausts its 3 attempts has waited 6 time units in total.
C15_BackoffDoubles ==
    LET waits == call.waits
    IN  /\ \A i \in 1..Len(waits) : waits[i] <= 10
        /\ Len(waits) >= 1 => waits[1] = 2
        /\ Len(waits) >= 2 => waits[2] = 4
        /\ (call.phase = "raised" /\ Len(call.log) = 3) => TotalWait(waits) = 6

\* C16: only successful responses enter the cache and retries happen inside
\* the cached call: a key has a cache entry only if an earlier get for it
\* returned successfully, and the entry holds a successful payload; a get
\* that ends by raising leaves the cache unchanged, so the next get with the
\* same arguments goes to the network again; a get answered from the cache
\* returns the stored payload with zero network calls.
C16_OnlySuccessesCached ==
    /\ [](\A k \in Keys :
            cache[k].present => (hist[k].present /\ cache[k].payload \in PayloadIds))
    /\ []((call.phase = "returned" /\ call.fromCache) =>
            /\ Len(call.log) = 0
            /\ cache[call.key].present /\ call.payload = cache[call.key].payload)
    /\ []((call.phase = "raised") =>
            /\ Len(call.log) >= 1 /\ ~call.log[Len(call.log)].res.ok
            /\ ~(CacheEnabled(stAvail) /\ CacheHit(cache[call.key], now)))
    /\ [][(call.phase = "attempting" /\ call'.phase = "raised") => cache' = cache]_vars
    /\ [][(call.phase = "raised" /\ call' # call /\ call'.key = call.key) =>
            (call'.phase = "attempting" /\ call'.log = <<>>)]_vars

\* C16 witness: a get answered from the cache, with no network call, whose
\* entry was stored by a fetch that needed all three attempts.
C16_Witness ==
    /\ call.phase = "returned" /\ call.fromCache /\ Len(call.log) = 0
    /\ call.prev.present /\ call.prev.fetched /\ call.prev.netCalls = 3
    /\ cache[call.key].present
    /\ \E k \in Keys : ~cache[k].present /\ ~hist[k].present

-----------------------------------------------------------------------------
(* Claims about the empty-query shortcut, checked under SpecMatch *)

WhitespaceOnly(t) == t # <<>> /\ \A i \in 1..Len(t) : t[i] = " "

\* C17: the empty-query shortcut applies to the empty string only: the empty
\* query gives an empty result, while a non-empty query of whitespace only is
\* scored against every entry as the empty text and gets 0 + 0.2 + 0.3, so
\* the result is the first min(limit, catalog size) catalog entries in
\* catalog order, each with score exactly 0.5.
C17_WhitespaceQuery ==
    ranked.done =>
        /\ query = <<>> => ranked.items = <<>>
        /\ WhitespaceOnly(query) =>
              /\ Len(ranked.items) = Min(limit, Len(catalog))
              /\ \A i \in 1..Len(ranked.items) :
                    /\ ranked.items[i].jsic_code = i
                    /\ ranked.items[i].label = catalog[i].label
                    /\ 2 * ranked.items[i].score[1] = ranked.items[i].score[2]

\* C17 witness: a blank query on a two-entry catalog with limit 1 returns
\* the first entry with score one half.
C17_Witness ==
    /\ ranked.done
    /\ query = <<" ", " ">>
    /\ Len(catalog) = 2 /\ limit = 1
    /\ catalog[1].label # catalog[2].label
    /\ Len(ranked.items) = 1
    /\ ranked.items[1].jsic_code = 1
    /\ ranked.items[1].score = Rat(1, 2)

=============================================================================
